---- MODULE Spec2Model ----
(***************************************************************************)
(* Model of the transcript batch converter (src/utils/txt_to_batches.py)   *)
(* and of the batch verifier (src/utils/verify_batches.py).                *)
(*                                                                         *)
(* Strings the code inspects (file names, titles) are sequences of         *)
(* one-character strings.  A directory is a function from file names to    *)
(* file contents.  The two programs share only the batch directory.        *)
(***************************************************************************)
EXTENDS Integers, Sequences, FiniteSets, TLC

\* ------------------------------------------------------------ bounds
\* Largest number of entries of the input directory.
MaxFiles == 3
\* Largest --batch_size (the smallest is 1).
MaxB == 2
\* Largest number of batch files an earlier run left in the output directory.
MaxPrior == 2
\* Largest number of entries of one batch file handed to the verifier.
MaxEntries == 2

\* ------------------------------------------------- program constants
\* filename[:-4]
ExtLen == 4
\* batch_{batch_count:03d}.json
PadWidth == 3
\* if len(missing) < 50
ListLimit == 50
\* min(5, len(files)) / len(files) - 5
HeadCount == 5

\* ------------------------------------------------------------- text
Digits == <<"0", "1", "2", "3", "4", "5", "6", "7", "8", "9">>
UpperCase == <<"A", "B", "C", "D", "E", "F", "G", "H", "I", "J", "K", "L", "M",
               "N", "O", "P", "Q", "R", "S", "T", "U", "V", "W", "X", "Y", "Z">>
LowerCase == <<"a", "b", "c", "d", "e", "f", "g", "h", "i", "j", "k", "l", "m",
               "n", "o", "p", "q", "r", "s", "t", "u", "v", "w", "x", "y", "z">>
\* The characters of the modelled file names in code point order.
CodeOrder == <<" ", "#", "-", ".">> \o Digits \o UpperCase \o <<"_">> \o LowerCase

IsDigit(c) == \E k \in 1..Len(Digits) : Digits[k] = c
DigitVal(c) == (CHOOSE k \in 1..Len(Digits) : Digits[k] = c) - 1
IsSpace(c) == c = " "
Ord(c) == CHOOSE k \in 1..Len(CodeOrder) : CodeOrder[k] = c

\* str.lower()
LowerChar(c) ==
    IF \E k \in 1..Len(UpperCase) : UpperCase[k] = c
    THEN LowerCase[CHOOSE k \in 1..Len(UpperCase) : UpperCase[k] = c]
    ELSE c
Lower(s) == [k \in 1..Len(s) |-> LowerChar(s[k])]

\* str.endswith(suffix)
EndsWith(s, suffix) ==
    /\ Len(s) >= Len(suffix)
    /\ SubSeq(s, Len(s) - Len(suffix) + 1, Len(s)) = suffix

\* The position after the longest run of digits of s that starts at p (\d+ or \d*).
RECURSIVE DigitRun(_, _)
DigitRun(s, p) ==
    IF p <= Len(s) /\ IsDigit(s[p]) THEN DigitRun(s, p + 1) ELSE p

\* The position after the longest run of whitespace of s that starts at p (\s*).
RECURSIVE SpaceRun(_, _)
SpaceRun(s, p) ==
    IF p <= Len(s) /\ IsSpace(s[p]) THEN SpaceRun(s, p + 1) ELSE p

\* int(digits)
RECURSIVE ToInt(_)
ToInt(ds) ==
    IF ds = <<>> THEN 0
    ELSE 10 * ToInt(SubSeq(ds, 1, Len(ds) - 1)) + DigitVal(ds[Len(ds)])

\* str.strip()
RECURSIVE Strip(_)
Strip(s) ==
    IF s = <<>> THEN s
    ELSE IF IsSpace(s[1]) THEN Strip(Tail(s))
    ELSE IF IsSpace(s[Len(s)]) THEN Strip(SubSeq(s, 1, Len(s) - 1))
    ELSE s

\* The decimal digits of n, most significant first ("" for 0).
RECURSIVE DigitsOf(_)
DigitsOf(n) ==
    IF n = 0 THEN <<>> ELSE DigitsOf(n \div 10) \o <<Digits[(n % 10) + 1]>>

\* "0" * k
RECURSIVE Zeros(_)
Zeros(k) == IF k <= 0 THEN <<>> ELSE <<"0">> \o Zeros(k - 1)

\* f"{n:03d}" for n >= 0
Pad(n) ==
    LET ds == IF n = 0 THEN <<"0">> ELSE DigitsOf(n)
    IN Zeros(PadWidth - Len(ds)) \o ds

\* f"batch_{batch_count:03d}.json"
BatchName(n) ==
    <<"b", "a", "t", "c", "h", "_">> \o Pad(n) \o <<".", "j", "s", "o", "n">>

\* a < b for two str values (lexicographic by code point)
RECURSIVE StrLess(_, _)
StrLess(a, b) ==
    IF b = <<>> THEN FALSE
    ELSE IF a = <<>> THEN TRUE
    ELSE IF a[1] = b[1] THEN StrLess(Tail(a), Tail(b))
    ELSE Ord(a[1]) < Ord(b[1])

\* -------------------------------------------------- filename parser
\* re.match(r"(\d+)-", filename): int(group(1)), else the index passed
\* (both call sites pass an index, so the `else 0` arm is never taken).
FileNumber(filename, index) ==
    LET e == DigitRun(filename, 1)
    IN IF e > 1 /\ e <= Len(filename) /\ filename[e] = "-"
       THEN ToInt(SubSeq(filename, 1, e - 1))
       ELSE index

\* title = filename[:-4]; re.match(r"\d+-#\d+\s*-\s*(.*)", title)
Title(filename) ==
    LET t == SubSeq(filename, 1, Len(filename) - ExtLen)
        a == DigitRun(t, 1)
        okA == a > 1 /\ a + 1 <= Len(t) /\ t[a] = "-" /\ t[a + 1] = "#"
        b == DigitRun(t, a + 2)
        okB == okA /\ b > a + 2
        c == SpaceRun(t, b)
        okC == okB /\ c <= Len(t) /\ t[c] = "-"
        d == SpaceRun(t, c + 1)
    IN IF okC THEN Strip(SubSeq(t, d, Len(t))) ELSE t

extract_data_from_filename(filename, index) ==
    <<FileNumber(filename, index), Title(filename)>>

\* ------------------------------------------------------------- sort
\* list.sort(key=...): the indices of keys in ascending key order, equal keys
\* in their original order (the sort is stable).
RECURSIVE SortPerm(_)
SortPerm(keys) ==
    IF keys = <<>> THEN <<>>
    ELSE LET n == Len(keys)
             p == SortPerm(SubSeq(keys, 1, n - 1))
             k == Cardinality({j \in 1..(n - 1) : keys[p[j]] <= keys[n]})
         IN SubSeq(p, 1, k) \o <<n>> \o SubSeq(p, k + 1, n - 1)

\* seq.sort(key=lambda x: x[0]) for a list of tuples whose first item is an int
SortByFirst(seq) ==
    LET p == SortPerm([k \in 1..Len(seq) |-> seq[k][1]])
    IN [k \in 1..Len(seq) |-> seq[p[k]]]

\* ------------------------------------------------------------- JSON
\* A JSON value in the place of episode_number: an integer, or a value that is
\* not one (a string).
JInt(n) == [int |-> TRUE, n |-> n]
JStr == [int |-> FALSE, n |-> 0]

\* The content of a file that json.load cannot read (unreadable, cut short,
\* not JSON).
Corrupt == [ok |-> FALSE, data |-> <<>>]

\* json.dump(batch_data, f, ...): the array of the records as JSON objects.
Dump(batch_data) ==
    [ok |-> TRUE,
     data |-> [k \in 1..Len(batch_data) |->
                 [episode_number |-> JInt(batch_data[k].episode_number),
                  title |-> batch_data[k].title,
                  transcript |-> batch_data[k].transcript,
                  filename |-> batch_data[k].filename]]]

Range(s) == {s[k] : k \in DOMAIN s}
Min(a, b) == IF a < b THEN a ELSE b
Max(a, b) == IF a > b THEN a ELSE b

\* ------------------------------------------------------- file names
TxtSuffix == <<".", "t", "x", "t">>
JsonSuffix == <<".", "j", "s", "o", "n">>

\* Entries an input directory may hold.
NameA == <<"1", "-", "a", ".", "t", "x", "t">>
NameB == <<"0", "1", "-", "b", ".", "T", "X", "T">>
NameC == <<"3", "-", "#", "3", " ", "-", " ", "c", ".", "t", "x", "t">>
NameN == <<"n", ".", "t", "x", "t">>
NameD == <<"2", "-", "d", ".", "m", "d">>
NamePool == {NameA, NameB, NameC, NameN, NameD}

\* os.listdir(input_dir): distinct names in any order.
Listings ==
    UNION {{s \in [1..n -> NamePool] : \A a, b \in 1..n : a # b => s[a] # s[b]}
             : n \in 0..MaxFiles}

\* f.read(): the text of an input file.
FileText(filename) == <<"text of">> \o filename

VARIABLES
    \* the batch directory (--output_dir of the converter, --batch_dir of the
    \* verifier): whether it exists, and its files
    dirExists, outDir,
    \* converter: inputs
    inputExists, listing, batch_size, priorDir,
    \* converter: locals of process_files
    cpc, filenames, numbered_files, all_files, error_count, idx, offset,
    batch_count,
    \* converter: what it printed and returned, the batches it formed and the
    \* files it wrote
    readErrors, writeErrors, batches, written, report, ret,
    \* verifier: locals of verify_batches and what it printed
    vpc, batch_files, bidx, files, vout

dirVars == <<dirExists, outDir>>
inVars == <<inputExists, listing, batch_size, priorDir>>
cVars == <<cpc, filenames, numbered_files, all_files, error_count, idx, offset,
           batch_count, readErrors, writeErrors, batches, written, report, ret>>
vVars == <<vpc, batch_files, bidx, files, vout>>
vars == <<dirVars, inVars, cVars, vVars>>

\* ------------------------------------------------------- converter
\* The record process_files appends for a file it read.
RecordOf(filename, original_idx) ==
    LET parsed == extract_data_from_filename(filename, original_idx)
    IN [episode_number |-> parsed[1],
        title |-> parsed[2],
        transcript |-> FileText(filename),
        filename |-> filename]

\* What an earlier run with --batch_size 1 over the first n of these files left.
PriorRun == <<NameA, NameB, NameC, NameN>>
PriorDir(n) ==
    [nm \in {BatchName(k) : k \in 1..n} |->
        LET k == CHOOSE k \in 1..n : BatchName(k) = nm
        IN Dump(<<RecordOf(PriorRun[k], k - 1)>>)]

\* os.makedirs(output_dir, exist_ok=True): an existing directory keeps its files.
\* (faulty variant: the directory is emptied)
MakeDirsWiped(dir) == [nm \in {} |-> Corrupt]
MakeDirs(dir) == dir

\* [f for f in os.listdir(input_dir) if f.lower().endswith(".txt")]
IsTxt(f) == EndsWith(Lower(f), TxtSuffix)
TxtFiles(entries) == SelectSeq(entries, IsTxt)

\* numbered_files before the sort: (file_number, filename, i) in listing order.
Enumerated(fs) ==
    [k \in 1..Len(fs) |->
        <<extract_data_from_filename(fs[k], k - 1)[1], fs[k], k - 1>>]

\* numbered_files.sort(key=lambda x: x[0])
\* (faulty variant: descending order)
SortNumberedReversed(nf) == [k \in 1..Len(nf) |-> SortByFirst(nf)[Len(nf) + 1 - k]]
SortNumbered(nf) == SortByFirst(nf)

\* error_count += 1
\* (faulty variant: the failure is not counted)
CountErrorNot(count) == count
CountError(count) == count + 1

\* all_files[i : i + batch_size]
\* (faulty variant: the slice ends one record early)
BatchDataShort(all, i, size) == SubSeq(all, i + 1, Min(i + size, Len(all)) - 1)
BatchData(all, i, size) == SubSeq(all, i + 1, Min(i + size, Len(all)))

\* open(output_path, "w") and json.dump succeeding: the file holds the batch.
WriteFile(dir, name, content) ==
    [nm \in DOMAIN dir \cup {name} |-> IF nm = name THEN content ELSE dir[nm]]

\* Nothing printed yet. `checked` records how far the analysis of lines 52-76
\* got: "none", "dups" (the duplicate check ran) or "gaps" (the range check ran).
VOutInit ==
    [nofiles |-> FALSE, found |-> <<>>, errors |-> <<>>, total |-> <<>>,
     checked |-> "none", dupWarning |-> <<>>, dupList |-> <<>>,
     missingWarning |-> <<>>, missingList |-> <<>>, success |-> <<>>,
     first |-> <<>>, last |-> <<>>]

InitIdleVerifier ==
    /\ vpc = "idle"
    /\ batch_files = <<>>
    /\ bidx = 1
    /\ files = <<>>
    /\ vout = VOutInit

Init ==
    /\ inputExists \in BOOLEAN
    /\ listing \in IF inputExists THEN Listings ELSE {<<>>}
    /\ batch_size \in 1..MaxB
    /\ \E n \in 0..MaxPrior :
         /\ outDir = PriorDir(n)
         /\ dirExists \in IF n = 0 THEN BOOLEAN ELSE {TRUE}
    /\ priorDir = outDir
    /\ cpc = "start"
    /\ filenames = <<>>
    /\ numbered_files = <<>>
    /\ all_files = <<>>
    /\ error_count = 0
    /\ idx = 1
    /\ offset = 0
    /\ batch_count = 0
    /\ readErrors = <<>>
    /\ writeErrors = <<>>
    /\ batches = <<>>
    /\ written = {}
    /\ report = <<>>
    /\ ret = <<>>
    /\ InitIdleVerifier

\* Lines 36-49: create the output directory, list and number the .txt files,
\* sort them; a missing input directory ends the run with 0.
ListDir ==
    /\ cpc = "start"
    /\ dirExists' = TRUE
    /\ outDir' = MakeDirs(outDir)
    /\ IF ~inputExists
       THEN /\ ret' = <<0>>
            /\ cpc' = "done"
            /\ UNCHANGED <<filenames, numbered_files>>
       ELSE /\ filenames' = TxtFiles(listing)
            /\ numbered_files' = SortNumbered(Enumerated(filenames'))
            /\ cpc' = IF filenames' = <<>> THEN "report" ELSE "read"
            /\ ret' = ret
    /\ UNCHANGED <<inVars, vVars, all_files, error_count, idx, offset,
                   batch_count, readErrors, writeErrors, batches, written,
                   report>>

\* Lines 53-71: one iteration of the read loop; open or read may raise.
ReadFile ==
    /\ cpc = "read"
    /\ LET filename == numbered_files[idx][2]
           original_idx == numbered_files[idx][3]
       IN \E readable \in BOOLEAN :
            IF readable
            THEN /\ all_files' = Append(all_files, RecordOf(filename, original_idx))
                 /\ UNCHANGED <<error_count, readErrors>>
            ELSE /\ error_count' = CountError(error_count)
                 /\ readErrors' = Append(readErrors, filename)
                 /\ all_files' = all_files
    /\ idx' = idx + 1
    /\ cpc' = IF idx < Len(numbered_files) THEN "read"
              ELSE IF all_files' = <<>> THEN "report" ELSE "write"
    /\ UNCHANGED <<dirVars, inVars, vVars, filenames, numbered_files, offset,
                   batch_count, writeErrors, batches, written, report, ret>>

\* Lines 74-83: one iteration of the write loop. open may raise (the file is
\* left as it was), json.dump may raise after open truncated the file (the
\* file holds no complete JSON document), or the batch is written.
WriteBatch ==
    /\ cpc = "write"
    /\ LET batch_data == BatchData(all_files, offset, batch_size)
           output_filename == BatchName(batch_count + 1)
       IN /\ batches' = Append(batches, batch_data)
          /\ \E outcome \in {"written", "not opened", "cut short"} :
               /\ outDir' = CASE outcome = "written" ->
                                   WriteFile(outDir, output_filename, Dump(batch_data))
                              [] outcome = "cut short" ->
                                   WriteFile(outDir, output_filename, Corrupt)
                              [] outcome = "not opened" -> outDir
               /\ written' = IF outcome = "written"
                             THEN written \cup {output_filename}
                             ELSE written
               /\ writeErrors' = IF outcome = "written"
                                 THEN writeErrors
                                 ELSE Append(writeErrors, output_filename)
    /\ batch_count' = batch_count + 1
    /\ offset' = offset + batch_size
    /\ cpc' = IF offset' < Len(all_files) THEN "write" ELSE "report"
    /\ UNCHANGED <<dirExists, inVars, vVars, filenames, numbered_files,
                   all_files, error_count, idx, readErrors, report, ret>>

\* Lines 85-88: the report and the return value.
Report ==
    /\ cpc = "report"
    /\ report' = <<[processed |-> Len(all_files),
                    total |-> Len(filenames),
                    errors |-> IF error_count > 0 THEN <<error_count>> ELSE <<>>]>>
    /\ ret' = <<batch_count>>
    /\ cpc' = "done"
    /\ UNCHANGED <<dirVars, inVars, vVars, filenames, numbered_files, all_files,
                   error_count, idx, offset, batch_count, readErrors,
                   writeErrors, batches, written>>

Next == ListDir \/ ReadFile \/ WriteBatch \/ Report

Spec == Init /\ [][Next]_vars

\* --------------------------------------------------------- verifier
\* Objects a batch file handed to the verifier may hold.
Entry(ep) ==
    [episode_number |-> JInt(ep), title |-> <<"t">> \o DigitsOf(ep),
     transcript |-> <<>>, filename |-> DigitsOf(ep) \o <<"-">> \o TxtSuffix]
EntryNoTitle ==
    [episode_number |-> JInt(2), transcript |-> <<>>,
     filename |-> <<"2", "-">> \o TxtSuffix]
EntryStrNumber ==
    [episode_number |-> JStr, title |-> <<"t">>, transcript |-> <<>>,
     filename |-> <<"x", "-">> \o TxtSuffix]
EpPool == {1, 2, 3, ListLimit + 2}
EntryPool == {Entry(ep) : ep \in EpPool} \cup {EntryNoTitle, EntryStrNumber}

Contents ==
    {Corrupt} \cup
    {[ok |-> TRUE, data |-> d] : d \in UNION {[1..n -> EntryPool] : n \in 0..MaxEntries}}

\* Names of the files a batch directory may hold.
NotesName == <<"n", "o", "t", "e", "s", ".", "m", "d">>
JsonNames == {BatchName(1), BatchName(2)}
JsonDirs == UNION {[S -> Contents] : S \in SUBSET JsonNames}

\* sorted(names): ascending by str comparison.
RECURSIVE SortedNames(_)
SortedNames(S) ==
    IF S = {} THEN <<>>
    ELSE LET least == CHOOSE a \in S : \A b \in S \ {a} : StrLess(a, b)
         IN <<least>> \o SortedNames(S \ {least})

\* sorted([f for f in os.listdir(batch_dir) if f.endswith(".json")])
ListBatchFiles(dir) == SortedNames({nm \in DOMAIN dir : EndsWith(nm, JsonSuffix)})

\* file_entry["episode_number"], file_entry["title"], file_entry["filename"]
HasKeys(e) == {"episode_number", "title", "filename"} \subseteq DOMAIN e
Triple(e) == <<e.episode_number, e.title, e.filename>>

\* Lines 36-43: the loop over the entries of a parsed batch; a missing key
\* raises and leaves the entries appended so far.
RECURSIVE AppendEntries(_, _)
AppendEntries(acc, data) ==
    IF data = <<>> THEN [files |-> acc, failed |-> FALSE]
    ELSE IF HasKeys(data[1])
         THEN AppendEntries(Append(acc, Triple(data[1])), Tail(data))
         ELSE [files |-> acc, failed |-> TRUE]

\* Lines 32-45: the try block for one batch file.
LoadInto(acc, content) ==
    IF content.ok THEN AppendEntries(acc, content.data)
    ELSE [files |-> acc, failed |-> TRUE]

\* Whether list.sort can compare the keys: int with int, str with str.
Comparable(fs) == \A a, b \in 1..Len(fs) : fs[a][1].int = fs[b][1].int
AllInt(fs) == \A a \in 1..Len(fs) : fs[a][1].int

\* files.sort(key=lambda x: x[0])
\* (faulty variant: no sort)
SortFilesNot(fs) == fs
SortFiles(fs) ==
    LET p == SortPerm([k \in 1..Len(fs) |-> fs[k][1].n])
    IN [k \in 1..Len(fs) |-> fs[p[k]]]

\* file_nums = [file_data[0] for file_data in files]
FileNums(fs) == [k \in 1..Len(fs) |-> fs[k][1]]

\* duplicates = len(file_nums) - len(file_set)
\* (faulty variant: one too few)
DuplicatesOffByOne(file_nums) == Len(file_nums) - Cardinality(Range(file_nums)) - 1
Duplicates(file_nums) == Len(file_nums) - Cardinality(Range(file_nums))

\* dup_dict[num] = dup_dict.get(num, 0) + 1, the dict as its (key, count)
\* pairs in insertion order.
Bump(dict, num) ==
    IF \E k \in 1..Len(dict) : dict[k][1] = num
    THEN LET k == CHOOSE k \in 1..Len(dict) : dict[k][1] = num
         IN [dict EXCEPT ![k] = <<num, dict[k][2] + 1>>]
    ELSE Append(dict, <<num, 1>>)

RECURSIVE DupDict(_)
DupDict(file_nums) ==
    IF file_nums = <<>> THEN <<>>
    ELSE Bump(DupDict(SubSeq(file_nums, 1, Len(file_nums) - 1)),
              file_nums[Len(file_nums)])

\* [k for k, v in dup_dict.items() if v > 1]
IsRepeated(pair) == pair[2] > 1
DupList(file_nums) ==
    LET dups == SelectSeq(DupDict(file_nums), IsRepeated)
    IN [k \in 1..Len(dups) |-> dups[k][1]]

\* min(file_nums), max(file_nums) of ints
MinOf(S) == CHOOSE a \in S : \A b \in S : a <= b
MaxOf(S) == CHOOSE a \in S : \A b \in S : a >= b

\* set(range(min_file, max_file + 1)) - file_set
Missing(present) == (MinOf(present)..MaxOf(present)) \ present

\* sorted(list(missing))
RECURSIVE SortedInts(_)
SortedInts(S) ==
    IF S = {} THEN <<>>
    ELSE <<MinOf(S)>> \o SortedInts(S \ {MinOf(S)})

\* if len(missing) < 50
\* (faulty variant: <= in place of <)
ShowsListUpTo(count) == count <= ListLimit
ShowsList(count) == count < ListLimit

\* Lines 52-61: what the duplicate check prints.
DupOutput(out, file_nums) ==
    LET duplicates == Duplicates(file_nums)
    IN [out EXCEPT !.checked = "dups",
                   !.dupWarning = IF duplicates > 0 THEN <<duplicates>> ELSE <<>>,
                   !.dupList = IF duplicates > 0 THEN <<DupList(file_nums)>> ELSE <<>>]

\* Lines 63-76: what the range check prints (file_nums are ints, not empty).
GapOutput(out, present) ==
    LET min_file == MinOf(present)
        max_file == MaxOf(present)
        missing == Missing(present)
    IN IF missing # {}
       THEN [out EXCEPT !.checked = "gaps",
                        !.missingWarning = <<[count |-> Cardinality(missing),
                                              min |-> min_file, max |-> max_file]>>,
                        !.missingList = IF ShowsList(Cardinality(missing))
                                        THEN <<SortedInts(missing)>>
                                        ELSE <<>>]
       ELSE [out EXCEPT !.checked = "gaps",
                        !.success = <<[min |-> min_file, max |-> max_file]>>]

InitIdleConverter ==
    /\ inputExists = FALSE
    /\ listing = <<>>
    /\ batch_size = 1
    /\ priorDir = outDir
    /\ cpc = "idle"
    /\ filenames = <<>>
    /\ numbered_files = <<>>
    /\ all_files = <<>>
    /\ error_count = 0
    /\ idx = 1
    /\ offset = 0
    /\ batch_count = 0
    /\ readErrors = <<>>
    /\ writeErrors = <<>>
    /\ batches = <<>>
    /\ written = {}
    /\ report = <<>>
    /\ ret = <<>>

InitV ==
    /\ dirExists \in BOOLEAN
    /\ IF dirExists
       THEN \E d \in JsonDirs, notes \in BOOLEAN :
              outDir = IF notes THEN WriteFile(d, NotesName, Corrupt) ELSE d
       ELSE outDir = [nm \in {} |-> Corrupt]
    /\ vpc = "start"
    /\ batch_files = <<>>
    /\ bidx = 1
    /\ files = <<>>
    /\ vout = VOutInit
    /\ InitIdleConverter

\* Lines 21-28: list the batch files; os.listdir raises for a missing
\* directory, and no .json file ends the run after the report.
ListBatches ==
    /\ vpc = "start"
    /\ IF ~dirExists
       THEN /\ vpc' = "raised"
            /\ UNCHANGED <<batch_files, vout>>
       ELSE /\ batch_files' = ListBatchFiles(outDir)
            /\ IF batch_files' = <<>>
               THEN /\ vout' = [vout EXCEPT !.nofiles = TRUE]
                    /\ vpc' = "done"
               ELSE /\ vout' = [vout EXCEPT !.found = <<Len(batch_files')>>]
                    /\ vpc' = "load"
    /\ UNCHANGED <<dirVars, inVars, cVars, bidx, files>>

\* Lines 30-45: one iteration of the loop over the batch files.
LoadBatch ==
    /\ vpc = "load"
    /\ LET batch_file == batch_files[bidx]
           loaded == LoadInto(files, outDir[batch_file])
       IN /\ files' = loaded.files
          /\ vout' = IF loaded.failed
                     THEN [vout EXCEPT !.errors = Append(@, batch_file)]
                     ELSE vout
    /\ bidx' = bidx + 1
    /\ vpc' = IF bidx < Len(batch_files) THEN "load" ELSE "analyze"
    /\ UNCHANGED <<dirVars, inVars, cVars, batch_files>>

\* Lines 47-76: the total, the sort, the duplicate check and the range check.
\* The sort raises TypeError for keys of mixed types, and max_file + 1 raises
\* it for keys that are not integers.
Analyze ==
    /\ vpc = "analyze"
    /\ LET out == [vout EXCEPT !.total = <<Len(files)>>]
       IN IF ~Comparable(files)
          THEN /\ vout' = out
               /\ vpc' = "raised"
               /\ files' = files
          ELSE /\ files' = SortFiles(files)
               /\ LET file_nums == FileNums(files')
                      dupOut == DupOutput(out, file_nums)
                  IN IF files' = <<>>
                     THEN /\ vout' = dupOut
                          /\ vpc' = "summary"
                     ELSE IF ~AllInt(files')
                     THEN /\ vout' = dupOut
                          /\ vpc' = "raised"
                     ELSE /\ vout' = GapOutput(dupOut, {file_nums[k].n : k \in 1..Len(file_nums)})
                          /\ vpc' = "summary"
    /\ UNCHANGED <<dirVars, inVars, cVars, batch_files, bidx>>

\* Lines 78-84: the first and the last five entries.
Summary ==
    /\ vpc = "summary"
    /\ vout' = [vout EXCEPT
                  !.first = <<[k \in 1..Min(HeadCount, Len(files)) |->
                                 <<files[k][1], files[k][2]>>]>>,
                  !.last = <<[k \in 1..(Len(files) - Max(0, Len(files) - HeadCount)) |->
                                LET j == Max(0, Len(files) - HeadCount) + k
                                IN <<files[j][1], files[j][2]>>]>>]
    /\ vpc' = "done"
    /\ UNCHANGED <<dirVars, inVars, cVars, batch_files, bidx, files>>

NextV == ListBatches \/ LoadBatch \/ Analyze \/ Summary

SpecV == InitV /\ [][NextV]_vars

\* ------------------------------------------------------ properties
CeilDiv(n, b) == (n + b - 1) \div b

RECURSIVE Concat(_)
Concat(seqs) == IF seqs = <<>> THEN <<>> ELSE seqs[1] \o Concat(Tail(seqs))

\* The names batch_001.json .. batch_K.json.
FirstNames(K) == {BatchName(k) : k \in 1..K}

\* The records of the files that were read, in the order of numbered_files.
ReadRecords ==
    LET read == SelectSeq(numbered_files, LAMBDA nf : nf[2] \notin Range(readErrors))
    IN [k \in 1..Len(read) |-> RecordOf(read[k][2], read[k][3])]

\* The position of a name in the directory listing.
ListingPos(f) == CHOOSE k \in 1..Len(listing) : listing[k] = f

\* What the loop of verify_batches over the batch files `names` of `dir` gathers.
RECURSIVE AggregateFiles(_, _)
AggregateFiles(dir, names) ==
    IF names = <<>> THEN <<>>
    ELSE LoadInto(AggregateFiles(dir, SubSeq(names, 1, Len(names) - 1)),
                  dir[names[Len(names)]]).files

\* A batch file whose reading or parsing fails.
FailsToLoad(content) ==
    \/ ~content.ok
    \/ \E k \in 1..Len(content.data) : ~HasKeys(content.data[k])

\* C1 as claimed: at the end of a run with N records read and batch size B,
\* exactly the ceil(N/B) files batch_001.. were written, each holds at most B
\* records, and their contents in sequence are the sorted list of the records
\* read.
C1_ChunkingLawFiles ==
    (cpc = "done" /\ inputExists) =>
        LET K == CeilDiv(Len(all_files), batch_size)
        IN /\ written = FirstNames(K)
           /\ \A k \in 1..K : /\ outDir[BatchName(k)].ok
                              /\ Len(outDir[BatchName(k)].data) <= batch_size
           /\ Concat([k \in 1..K |-> outDir[BatchName(k)].data]) = Dump(ReadRecords).data

\* C1 as amended: at the end of a run with N records read and batch size B,
\* exactly ceil(N/B) batches were formed and each was attempted once under the
\* names batch_001..; every batch holds 1..B records; the batches in sequence
\* are the sorted list of the records read; a batch whose write succeeded is
\* the content of its file (so with no failed write the claim holds of the
\* files).
C1_ChunkingLawBatches ==
    (cpc = "done" /\ inputExists) =>
        LET K == CeilDiv(Len(all_files), batch_size)
        IN /\ Len(batches) = K
           /\ batch_count = K
           /\ \A k \in 1..K : Len(batches[k]) >= 1 /\ Len(batches[k]) <= batch_size
           /\ Concat(batches) = ReadRecords
           /\ all_files = ReadRecords
           /\ written \cup Range(writeErrors) = FirstNames(K)
           /\ written \cap Range(writeErrors) = {}
           /\ \A k \in 1..K : BatchName(k) \in written =>
                                 outDir[BatchName(k)] = Dump(batches[k])
           /\ writeErrors = <<>> =>
                Concat([k \in 1..K |-> outDir[BatchName(k)].data]) = Dump(ReadRecords).data

\* A finished run of three records in batches of two in which one write
\* failed and one succeeded.
C1_Witness ==
    /\ cpc = "done"
    /\ Len(all_files) = 3
    /\ batch_size = 2
    /\ Len(batches) = 2
    /\ written # {}
    /\ writeErrors # <<>>

\* C2: a run whose input directory exists never stops before the report,
\* whatever reads fail; at its end every file whose read failed is in no batch,
\* every other discovered file is in exactly one batch, the error counter is
\* the number of failed files, and the reported processed count is the number
\* of discovered files minus the error counter.
C2_ReadFailuresSkipped ==
    /\ cpc \in {"read", "write", "report"} => ENABLED Next
    /\ (cpc = "done" /\ inputExists) =>
        /\ report # <<>>
        /\ ret # <<>>
        /\ Len(batches) = CeilDiv(Len(filenames) - Len(readErrors), batch_size)
        /\ Range(readErrors) \subseteq Range(filenames)
        /\ Cardinality(Range(readErrors)) = Len(readErrors)
        /\ \A f \in Range(readErrors) :
              \A k \in 1..Len(batches) : \A j \in 1..Len(batches[k]) :
                  batches[k][j].filename # f
        /\ \A f \in Range(filenames) \ Range(readErrors) :
              Cardinality({kj \in (1..Len(batches)) \X (1..batch_size) :
                             /\ kj[2] <= Len(batches[kj[1]])
                             /\ batches[kj[1]][kj[2]].filename = f}) = 1
        /\ error_count = Len(readErrors)
        /\ report[1].total = Len(filenames)
        /\ report[1].processed = report[1].total - error_count
        /\ report[1].errors = IF Len(readErrors) > 0 THEN <<Len(readErrors)>> ELSE <<>>

\* A finished run in which one read failed and two succeeded.
C2_Witness ==
    /\ cpc = "done"
    /\ Len(readErrors) = 1
    /\ Len(all_files) = 2
    /\ batches # <<>>
    /\ report # <<>>

\* C3 as claimed: the value returned is the number of batch files the run
\* wrote (0 for a missing input directory or no .txt file), and the numbers in
\* the names of the files written are 1..that number.
C3_ReturnCountsWritten ==
    cpc = "done" =>
        /\ ret = <<Cardinality(written)>>
        /\ written = FirstNames(Cardinality(written))

\* C6: numbered_files is the enumerated listing in ascending file number
\* order with equal numbers in listing order; the records are in ascending
\* episode_number order with equal numbers in listing order; each record's
\* episode_number is the key its file was sorted by; episode numbers never
\* decrease along the batches in sequence.
C6_SortedBeforeSlicing ==
    /\ cpc \in {"read", "write", "report", "done"} /\ inputExists =>
          /\ Len(numbered_files) = Len(filenames)
          /\ Range(numbered_files) = Range(Enumerated(filenames))
    /\ \A a, b \in 1..Len(numbered_files) :
          a < b => \/ numbered_files[a][1] < numbered_files[b][1]
                   \/ /\ numbered_files[a][1] = numbered_files[b][1]
                      /\ numbered_files[a][3] < numbered_files[b][3]
    /\ \A a, b \in 1..Len(all_files) :
          a < b => \/ all_files[a].episode_number < all_files[b].episode_number
                   \/ /\ all_files[a].episode_number = all_files[b].episode_number
                      /\ ListingPos(all_files[a].filename) < ListingPos(all_files[b].filename)
    /\ \A a \in 1..Len(all_files) :
          \E k \in 1..Len(numbered_files) :
             /\ numbered_files[k][2] = all_files[a].filename
             /\ numbered_files[k][1] = all_files[a].episode_number
    /\ LET flat == Concat(batches)
       IN \A a, b \in 1..Len(flat) :
             a < b => flat[a].episode_number <= flat[b].episode_number

\* A finished run whose listing was not in file number order and that read
\* two files of equal episode number and a third.
C6_Witness ==
    /\ cpc = "done"
    /\ Len(all_files) = 3
    /\ numbered_files # Enumerated(filenames)
    /\ \E a \in 1..2 : all_files[a].episode_number = all_files[a + 1].episode_number
    /\ Len(Concat(batches)) = 3

\* C10: throughout a run that has formed K batches so far, every file the
\* output directory held before the run is still there, the only other files
\* are among batch_001 .. batch_K, and every earlier file not among those K
\* names has its earlier content; after the run, verify_batches on the
\* directory gathers the records of every earlier batch file numbered above K.
C10_OnlyFirstKTouched ==
    cpc # "idle" =>
        /\ DOMAIN priorDir \subseteq DOMAIN outDir
        /\ DOMAIN outDir \subseteq DOMAIN priorDir \cup FirstNames(batch_count)
        /\ \A nm \in DOMAIN priorDir \ FirstNames(batch_count) :
              outDir[nm] = priorDir[nm]
        /\ cpc = "done" =>
              \A nm \in DOMAIN priorDir \ FirstNames(batch_count) :
                 \A j \in 1..Len(priorDir[nm].data) :
                    Triple(priorDir[nm].data[j])
                       \in Range(AggregateFiles(outDir, ListBatchFiles(outDir)))

\* A finished run that wrote batch_001 into a directory where an earlier run
\* had left batch_002: the verifier would gather records of both.
C10_Witness ==
    /\ cpc = "done"
    /\ batch_count = 1
    /\ written = {BatchName(1)}
    /\ BatchName(2) \in DOMAIN priorDir
    /\ outDir[BatchName(2)] = priorDir[BatchName(2)]
    /\ Len(AggregateFiles(outDir, ListBatchFiles(outDir)))
          = Len(batches[1]) + Len(priorDir[BatchName(2)].data)

\* C4 as claimed: when the loop over the batch files ends, the aggregated
\* sequence is, in batch file order, all entries of the batch files that
\* loaded and no entry of a batch file whose reading or parsing failed, and
\* an error was reported for exactly the latter.
C4_FailedBatchContributesNothing ==
    vpc = "analyze" =>
        /\ files = Concat([k \in 1..Len(batch_files) |->
                      IF FailsToLoad(outDir[batch_files[k]]) THEN <<>>
                      ELSE [j \in 1..Len(outDir[batch_files[k]].data) |->
                              Triple(outDir[batch_files[k]].data[j])]])
        /\ vout.errors = SelectSeq(batch_files, LAMBDA nm : FailsToLoad(outDir[nm]))

\* C5 as claimed: no exception escapes verify_batches, and a finished run
\* printed the summary unless the directory held no .json file.
C5_NoExceptionEscapes ==
    /\ vpc # "raised"
    /\ vpc = "done" => (vout.nofiles \/ (vout.first # <<>> /\ vout.last # <<>>))

\* C7: once the duplicate check ran, the duplicate count is the number of
\* aggregated entries minus the number of distinct episode numbers, the
\* warning and the list are printed exactly when it is positive, and the list
\* holds exactly the episode numbers that occur more than once, each once; the
\* check runs in every run that gathered entries with integer numbers.
C7_DuplicatesReported ==
    LET nums == FileNums(files)
        distinct == {nums[k] : k \in 1..Len(nums)}
        count == Len(nums) - Cardinality(distinct)
        repeated == {v \in distinct : Cardinality({k \in 1..Len(nums) : nums[k] = v}) > 1}
    IN /\ vout.checked # "none" =>
            /\ vout.dupWarning = IF count > 0 THEN <<count>> ELSE <<>>
            /\ (vout.dupList # <<>>) <=> (count > 0)
            /\ count > 0 => /\ Range(vout.dupList[1]) = repeated
                            /\ Len(vout.dupList[1]) = Cardinality(repeated)
       /\ (vpc \in {"summary", "done"} /\ batch_files # <<>>) => vout.checked # "none"
       /\ (batch_files # <<>> /\ AllInt(files)) => vpc # "raised"

\* The numbers 1, 2, 2, 3: one duplicate, the list [2].
C7_Witness ==
    /\ vpc = "done"
    /\ FileNums(files) = <<JInt(1), JInt(2), JInt(2), JInt(3)>>
    /\ vout.dupWarning = <<1>>
    /\ vout.dupList = <<(<<JInt(2)>>)>>

\* C8: once the range check ran (the aggregated sequence is not empty), with
\* `miss` the integers between the least and the greatest episode number that
\* no entry carries: the success message is printed exactly when miss is
\* empty, otherwise the warning gives its size, and the ascending list of miss
\* is printed exactly when miss is not empty and smaller than 50; the check
\* runs in every finished run that gathered entries.
C8_GapsReported ==
    LET present == {files[k][1].n : k \in 1..Len(files)}
        lo == CHOOSE a \in present : \A b \in present : a <= b
        hi == CHOOSE a \in present : \A b \in present : a >= b
        miss == {m \in lo..hi : m \notin present}
    IN /\ vout.checked = "gaps" =>
            /\ files # <<>>
            /\ vout.success = IF miss = {} THEN <<[min |-> lo, max |-> hi]>> ELSE <<>>
            /\ vout.missingWarning =
                  IF miss = {} THEN <<>>
                  ELSE <<[count |-> Cardinality(miss), min |-> lo, max |-> hi]>>
            /\ (vout.missingList # <<>>) <=> (miss # {} /\ Cardinality(miss) < ListLimit)
            /\ vout.missingList # <<>> =>
                  /\ Range(vout.missingList[1]) = miss
                  /\ \A a, b \in 1..Len(vout.missingList[1]) :
                        a < b => vout.missingList[1][a] < vout.missingList[1][b]
       /\ (vpc \in {"summary", "done"} /\ files # <<>>) => vout.checked = "gaps"

\* Exactly 50 numbers are missing: the count is reported, the list is not.
C8_Witness ==
    /\ vpc = "done"
    /\ vout.missingWarning # <<>>
    /\ vout.missingWarning[1].count = ListLimit
    /\ vout.missingList = <<>>
    /\ vout.success = <<>>

\* The first position of value v in sequence s.
FirstIndex(s, v) == CHOOSE k \in 1..Len(s) : s[k] = v /\ \A j \in 1..(k - 1) : s[j] # v

\* C9 as claimed: the printed list of duplicated numbers is in the order in
\* which the numbers are first met in the sequence as it was loaded from the
\* batch files.
C9_DupListInLoadOrder ==
    (vpc \in {"summary", "done"} /\ vout.dupList # <<>>) =>
        LET loaded == FileNums(AggregateFiles(outDir, batch_files))
            list == vout.dupList[1]
        IN \A a, b \in 1..Len(list) :
              a < b => FirstIndex(loaded, list[a]) < FirstIndex(loaded, list[b])

\* C9 as amended: the printed list of duplicated numbers is in ascending
\* numeric order, which is the order of first occurrence in the sequence
\* after its sort by episode_number.
C9_DupListAscending ==
    (vout.dupList # <<>> /\ AllInt(files)) =>
        LET list == vout.dupList[1]
            nums == FileNums(files)
        IN /\ \A a, b \in 1..Len(list) : a < b => list[a].n < list[b].n
           /\ \A a, b \in 1..Len(list) :
                 a < b => FirstIndex(nums, list[a]) < FirstIndex(nums, list[b])

\* Two duplicated numbers, the greater one loaded first.
C9_Witness ==
    /\ vpc = "done"
    /\ vout.dupList # <<>>
    /\ Len(vout.dupList[1]) = 2
    /\ LET loaded == FileNums(AggregateFiles(outDir, batch_files))
       IN FirstIndex(loaded, vout.dupList[1][2]) < FirstIndex(loaded, vout.dupList[1][1])

====
